---- MODULE Spec2Model ----
(***************************************************************************)
(* Model of libqtile/widget/redshift.py: the GammaGroup value object, the  *)
(* RedshiftDriver that shells out to the redshift binary, and the Redshift *)
(* text widget (click toggles, scroll cycles over four display lines).     *)
(*                                                                         *)
(* Conventions                                                             *)
(*  - Python floats with one decimal digit are kept as integer tenths      *)
(*    (1.0 is 10, 0.4 is 4) and printed by FloatStr as Python's str does.  *)
(*  - A format template is a sequence of tokens, literal text or a         *)
(*    replacement field, and str.format is the operator Format.            *)
(*  - The two default nerd-font glyphs are written by their code points.   *)
(*  - Python list indices are 0-based, TLA+ sequences 1-based: the entry   *)
(*    self._lines[i] of the source is self._lines[i + 1] here.             *)
(*  - Every handler runs to completion as one action.  ops is the list of  *)
(*    externally visible or list-related steps made by the last handler,   *)
(*    in program order, and event names the last handler.                  *)
(*  - A Python exception is the field exc of the object record: once it is *)
(*    set the rest of the handler is skipped, and the assignments made     *)
(*    before it stay.                                                      *)
(***************************************************************************)
EXTENDS Integers, Sequences, FiniteSets, TLC

VARIABLES
    brightness,    \* config: tenths
    temperature,   \* config: integer
    gamma_red,     \* config: tenths
    gamma_green,   \* config: tenths
    gamma_blue,    \* config: tenths
    disabled_txt,  \* config: template
    enabled_txt,   \* config: template
    is_enabled,    \* self.is_enabled
    _line_index,   \* self._line_index
    _lines,        \* self._lines
    text,          \* self.text, the displayed text
    configured,    \* _configure has run
    event,         \* the last handler that ran
    ops,           \* what the last handler did, in order
    raised,        \* the exception the last handler let escape, "" if none
    effect,        \* history: the screen's colour effect, "on", "off" or "unknown"
    prev_text,     \* history: the displayed text before the last handler
    prev_index,    \* history: the cursor before the last handler
    prev_failed,   \* history: the handler before the last made a failed driver call
    nscrolls,      \* history: scroll events since the last other event, saturating
    run_text,      \* history: the displayed text before the first of these scrolls
    run_index,     \* history: the cursor before the first of these scrolls
    run_dir,       \* history: "up", "down" or "mixed", the directions of these scrolls
    last_call      \* history: the most recent driver call, "apply" or "reset"

cfgvars == <<brightness, temperature, gamma_red, gamma_green, gamma_blue,
             disabled_txt, enabled_txt>>
vars == <<brightness, temperature, gamma_red, gamma_green, gamma_blue,
          disabled_txt, enabled_txt, is_enabled, _line_index, _lines, text,
          configured, event, ops, raised, effect, prev_text, prev_index,
          prev_failed, nscrolls, run_text, run_index, run_dir, last_call>>

\* the variables that only observe what has happened
histvars == <<effect, prev_text, prev_index, prev_failed, nscrolls, run_text,
              run_index, run_dir, last_call>>

\* the longest run of scroll events that is counted exactly
MaxScrolls == 9

(***************************************************************************)
(* Strings                                                                 *)
(***************************************************************************)
\* str(float) for a float given in tenths
FloatStr(t) == ToString(t \div 10) \o "." \o ToString(t % 10)

\* str(bool)
BoolStr(b) == IF b THEN "True" ELSE "False"

Lit(s) == [kind |-> "lit", s |-> s]
Field(name) == [kind |-> "field", s |-> name]

GlyphDisabled == "<U+F1803>"
GlyphEnabled == "<U+F06E8>"
ErrorText == "Redshift widget error"
InitialText == " "

(***************************************************************************)
(* Configurations: the defaults and the values the tests configure         *)
(***************************************************************************)
FmtTemplate ==
    << Lit("brightness"), Field("brightness"), Lit(", temp"), Field("temperature"),
       Lit(", r"), Field("gamma_red"), Lit(", g"), Field("gamma_green"),
       Lit(", b"), Field("gamma_blue"), Lit(", is_enabled"), Field("is_enabled") >>

ShortTemplate == << Lit("r"), Field("gamma_red"), Lit(", is_enabled"), Field("is_enabled") >>

TemplatePairs ==
    { << <<Lit(GlyphDisabled)>>, <<Lit(GlyphEnabled)>> >>,
      << <<Lit("Redshift disabled")>>, <<Lit("Redshift enabled")>> >>,
      << FmtTemplate, FmtTemplate >>,
      << ShortTemplate, <<Lit(GlyphEnabled)>> >> }

Brightnesses == {10, 4}
Temperatures == {1700, 1200}
Reds == {10, 2}
Greens == {10, 3}
Blues == {10, 5}

(***************************************************************************)
(* GammaGroup                                                              *)
(***************************************************************************)
GammaGroup(red, green, blue) ==
    [kind |-> "GammaGroup", s |-> "", red |-> red, green |-> green, blue |-> blue]

\* a plain str held in the same list as a GammaGroup
Str(s) == [kind |-> "str", s |-> s, red |-> 0, green |-> 0, blue |-> 0]

_redshift_fmt(g) == FloatStr(g.red) \o ":" \o FloatStr(g.green) \o ":" \o FloatStr(g.blue)

__repr__(g) == "Gamma: " \o _redshift_fmt(g)

__str__(g) ==
    "GammaGroup(red=" \o FloatStr(g.red) \o ", green=" \o FloatStr(g.green)
        \o ", blue=" \o FloatStr(g.blue) \o ")"

(***************************************************************************)
(* RedshiftDriver                                                          *)
(***************************************************************************)
\* what subprocess.run(..., check=True) does: returns on exit code 0, raises
\* CalledProcessError on a non-zero exit, FileNotFoundError when the binary
\* is missing, some other Exception (OSError, ...) otherwise
Outcomes == {"exit0", "CalledProcessError", "FileNotFoundError", "OtherException"}

Raises(outcome) == outcome # "exit0"

\* the exception classes that derive from Exception
IsException(outcome) ==
    outcome \in {"CalledProcessError", "FileNotFoundError", "OtherException"}

EnableArgv(temp, gamma, bright) ==
    << "redshift", "-P", "-O", ToString(temp), "-b", FloatStr(bright), "-g",
       _redshift_fmt(gamma) >>

ResetArgv == << "redshift", "-x" >>

\* the try statement with only CalledProcessError handled and the return
\* after it instead of inside finally
TryRun_narrow_except(outcome) ==
    LET caught == outcome = "CalledProcessError"
        success_code == IF caught THEN 0 ELSE 1
        pending == Raises(outcome) /\ ~caught
    IN [ret |-> success_code, raised |-> pending]

\* try / except Exception / finally: return success_code.
\* ret is the value returned, raised whether an exception leaves the method.
TryRun(outcome) ==
    LET caught == Raises(outcome) /\ IsException(outcome)   \* except Exception
        success_code == IF caught THEN 0 ELSE 1
        pending == Raises(outcome) /\ ~caught
        finally_returns == TRUE                \* return inside finally
    IN [ret |-> success_code, raised |-> pending /\ ~finally_returns]

enable(temp, gamma, bright, outcome) ==
    [argv |-> EnableArgv(temp, gamma, bright),
     ret |-> TryRun(outcome).ret, raised |-> TryRun(outcome).raised,
     logged |-> IF Raises(outcome)
                THEN "Exception trying to set redshift, temperature:" \o ToString(temp)
                        \o ", gamma: " \o __str__(gamma) \o ", brightness: " \o FloatStr(bright)
                ELSE ""]

reset(outcome) ==
    [argv |-> ResetArgv,
     ret |-> TryRun(outcome).ret, raised |-> TryRun(outcome).raised,
     logged |-> IF Raises(outcome)
                THEN "Exception trying to reset redshift temperature" ELSE ""]

(***************************************************************************)
(* Redshift widget: the methods, as functions of the object                *)
(***************************************************************************)
Self ==
    [brightness |-> brightness, temperature |-> temperature,
     gamma_red |-> gamma_red, gamma_green |-> gamma_green, gamma_blue |-> gamma_blue,
     disabled_txt |-> disabled_txt, enabled_txt |-> enabled_txt,
     is_enabled |-> is_enabled, _line_index |-> _line_index, _lines |-> _lines,
     text |-> text, ops |-> << >>, exc |-> ""]

Op(name, arg, ret) == [op |-> name, arg |-> arg, ret |-> ret, out |-> "", raised |-> FALSE]

Did(self, name, arg, ret) == [self EXCEPT !.ops = Append(@, Op(name, arg, ret))]

\* raise e: the handler stops here
Raise(self, e) == [self EXCEPT !.exc = e]

\* an exception is propagating
Raising(self) == self.exc # ""

\* the driver method returned r (or raised) when the process ended as outcome
Called(self, r, outcome) ==
    LET logged == [self EXCEPT !.ops = Append(@,
                      [op |-> "driver", arg |-> r.argv, ret |-> r.ret,
                       out |-> outcome, raised |-> r.raised])]
    IN IF r.raised THEN Raise(logged, outcome) ELSE logged

\* Python list indexing: seq[i] with a negative i counting from the end
InRange(seq, i) == -Len(seq) <= i /\ i < Len(seq)
GetItem(seq, i) == IF i >= 0 THEN seq[i + 1] ELSE seq[Len(seq) + i + 1]

\* the read self._lines[self._line_index], recorded
Reading(self) == Did(self, "read", << >>, self._line_index)

\* self.bar.draw(): the bar is asked to redraw
bar_draw(self) == Did(self, "bar.draw", << >>, 0)

\* self.text = t
SetText(self, t) == Did([self EXCEPT !.text = t], "text", <<t>>, 0)

FieldValue(self, name) ==
    CASE name = "brightness" -> FloatStr(self.brightness)
      [] name = "temperature" -> ToString(self.temperature)
      [] name = "gamma_red" -> FloatStr(self.gamma_red)
      [] name = "gamma_green" -> FloatStr(self.gamma_green)
      [] name = "gamma_blue" -> FloatStr(self.gamma_blue)
      [] name = "is_enabled" -> BoolStr(self.is_enabled)

RECURSIVE Format(_, _)
Format(self, txt) ==
    IF txt = << >> THEN ""
    ELSE (IF Head(txt).kind = "lit" THEN Head(txt).s ELSE FieldValue(self, Head(txt).s))
            \o Format(self, Tail(txt))

_format_first_text(self, txt) == Format(self, txt)

format_object(obj) ==
    IF obj.kind = "GammaGroup" THEN __repr__(obj)
    ELSE IF obj.kind = "str" THEN obj.s
    ELSE ""

\* _set_lines with the temperature line before the brightness line
_set_lines_reordered(self) ==
    LET first_text == _format_first_text(self,
                          IF self.is_enabled THEN self.enabled_txt ELSE self.disabled_txt)
    IN Did([self EXCEPT !._lines =
                << Str(first_text),
                   Str("Temperature: " \o ToString(self.temperature)),
                   Str("Brightness: " \o FloatStr(self.brightness)),
                   GammaGroup(self.gamma_red, self.gamma_green, self.gamma_blue) >>],
           "_set_lines", << >>, 0)

_set_lines(self) ==
    LET first_text == _format_first_text(self,
                          IF self.is_enabled THEN self.enabled_txt ELSE self.disabled_txt)
    IN Did([self EXCEPT !._lines =
                << Str(first_text),
                   Str("Brightness: " \o FloatStr(self.brightness)),
                   Str("Temperature: " \o ToString(self.temperature)),
                   GammaGroup(self.gamma_red, self.gamma_green, self.gamma_blue) >>],
           "_set_lines", << >>, 0)

\* _set_text taking the status line from the list too
_set_text_from_list(self) ==
    IF InRange(self._lines, self._line_index)
    THEN SetText(Reading(self),
                 format_object(GetItem(self._lines, self._line_index)))
    ELSE Raise(Reading(self), "IndexError")

_set_text(self) ==
    IF self._line_index = 0
    THEN IF self.is_enabled
         THEN SetText(self, _format_first_text(self, self.enabled_txt))
         ELSE SetText(self, _format_first_text(self, self.disabled_txt))
    ELSE IF InRange(self._lines, self._line_index)
         THEN SetText(Reading(self),
                      format_object(GetItem(self._lines, self._line_index)))
         ELSE Raise(Reading(self), "IndexError")

\* _TextBox.update(text): show the text and have it redrawn
update(self, t) == bar_draw(SetText(self, t))

show_line(self) ==
    IF self._lines = << >> THEN self
    ELSE IF InRange(self._lines, self._line_index)
         THEN update(Reading(self),
                     format_object(GetItem(self._lines, self._line_index)))
         ELSE Raise(Reading(self), "IndexError")

_render_error_text(self) == bar_draw(SetText(self, ErrorText))

\* enable_redshift recording that the effect is on
enable_redshift_sets_flag(self, outcome) ==
    LET gamma_val == GammaGroup(self.gamma_red, self.gamma_green, self.gamma_blue)
        r == enable(self.temperature, gamma_val, self.brightness, outcome)
        called == Called(self, r, outcome)
    IN IF Raising(called) THEN called
       ELSE IF r.ret = 0 THEN _render_error_text(called)
       ELSE [called EXCEPT !.is_enabled = TRUE]

\* enable_redshift with the green and blue gains passed in the wrong order
enable_redshift_swapped(self, outcome) ==
    LET gamma_val == GammaGroup(self.gamma_red, self.gamma_blue, self.gamma_green)
        r == enable(self.temperature, gamma_val, self.brightness, outcome)
        called == Called(self, r, outcome)
    IN IF Raising(called) THEN called
       ELSE IF r.ret = 0 THEN _render_error_text(called) ELSE called

enable_redshift(self, outcome) ==
    LET gamma_val == GammaGroup(self.gamma_red, self.gamma_green, self.gamma_blue)
        r == enable(self.temperature, gamma_val, self.brightness, outcome)
        called == Called(self, r, outcome)
    IN IF Raising(called) THEN called
       ELSE IF r.ret = 0 THEN _render_error_text(called) ELSE called

reset_redshift(self, outcome) ==
    LET r == reset(outcome)
        called == Called(self, r, outcome)
    IN IF Raising(called) THEN called
       ELSE IF r.ret = 0 THEN _render_error_text(called) ELSE called

\* click with the flag flipped only when the driver call succeeded
click_flip_on_success(self, outcome) ==
    LET called == IF self.is_enabled THEN reset_redshift(self, outcome)
                  ELSE enable_redshift(self, outcome)
        shown == _set_text([called EXCEPT !.is_enabled =
                               IF outcome = "exit0" THEN ~called.is_enabled
                               ELSE called.is_enabled])
    IN IF self._line_index # 0 THEN self
       ELSE IF Raising(called) THEN called
       ELSE IF Raising(shown) THEN shown
       ELSE bar_draw(shown)

\* click without the guard on the cursor
click_any_index(self, outcome) ==
    LET called == IF self.is_enabled THEN reset_redshift(self, outcome)
                  ELSE enable_redshift(self, outcome)
        shown == _set_text([called EXCEPT !.is_enabled = ~called.is_enabled])
    IN IF Raising(called) THEN called
       ELSE IF Raising(shown) THEN shown
       ELSE bar_draw(shown)

\* click with the text set before the flag is flipped
click_text_before_flip(self, outcome) ==
    LET called == IF self.is_enabled THEN reset_redshift(self, outcome)
                  ELSE enable_redshift(self, outcome)
        shown == _set_text(called)
    IN IF self._line_index # 0 THEN self
       ELSE IF Raising(called) THEN called
       ELSE IF Raising(shown) THEN shown
       ELSE bar_draw([shown EXCEPT !.is_enabled = ~shown.is_enabled])

\* click returning as soon as the driver call has failed
click_stop_on_failure(self, outcome) ==
    LET called == IF self.is_enabled THEN reset_redshift(self, outcome)
                  ELSE enable_redshift(self, outcome)
        shown == _set_text([called EXCEPT !.is_enabled = ~called.is_enabled])
    IN IF self._line_index # 0 THEN self
       ELSE IF Raising(called) \/ outcome # "exit0" THEN called
       ELSE IF Raising(shown) THEN shown
       ELSE bar_draw(shown)

\* click with the two branches exchanged
click_branches_swapped(self, outcome) ==
    LET called == IF self.is_enabled THEN enable_redshift(self, outcome)
                  ELSE reset_redshift(self, outcome)
        shown == _set_text([called EXCEPT !.is_enabled = ~called.is_enabled])
    IN IF self._line_index # 0 THEN self
       ELSE IF Raising(called) THEN called
       ELSE IF Raising(shown) THEN shown
       ELSE bar_draw(shown)

click(self, outcome) ==
    LET called == IF self.is_enabled THEN reset_redshift(self, outcome)
                  ELSE enable_redshift(self, outcome)
        shown == _set_text([called EXCEPT !.is_enabled = ~called.is_enabled])
    IN IF self._line_index # 0 THEN self
       ELSE IF Raising(called) THEN called
       ELSE IF Raising(shown) THEN shown
       ELSE bar_draw(shown)

\* _scroll without the modulo
_scroll_no_wrap(self, step) ==
    LET built == _set_lines(self)
    IN show_line([built EXCEPT !._line_index = @ + step])

\* _scroll on the list as the last event left it
_scroll_stale_lines(self, step) ==
    show_line([self EXCEPT !._line_index = (@ + step) % Len(self._lines)])

\* _scroll with the modulus one short of the list length
_scroll_short_cycle(self, step) ==
    LET built == _set_lines(self)
    IN show_line([built EXCEPT !._line_index = (@ + step) % (Len(built._lines) - 1)])

\* _scroll with the modulus one more than the list length
_scroll_long_cycle(self, step) ==
    LET built == _set_lines(self)
    IN show_line([built EXCEPT !._line_index = (@ + step) % (Len(built._lines) + 1)])

_scroll(self, step) ==
    LET built == _set_lines(self)
    IN show_line([built EXCEPT !._line_index = (@ + step) % Len(built._lines)])

scroll_up(self) == _scroll(self, 1)

\* scroll_down stepping the same way as scroll_up
scroll_down_forward(self) == _scroll(self, 1)

scroll_down(self) == _scroll(self, -1)

\* _configure with the list built and shown before the reset
_configure_reset_last(self, outcome) ==
    LET shown == _set_text(_set_lines(self))
    IN IF Raising(shown) THEN shown ELSE reset_redshift(shown, outcome)

_configure(self, outcome) ==
    LET called == reset_redshift(self, outcome)
    IN IF Raising(called) THEN called ELSE _set_text(_set_lines(called))

draw(self) == _set_text(self)

(***************************************************************************)
(* The state machine                                                       *)
(***************************************************************************)
\* the driver calls of a handler's ops, in order
DriverOps(o) == SelectSeq(o, LAMBDA e : e.op = "driver")

\* the last handler made a driver call that failed
DriverFailed == \E i \in 1..Len(ops) : ops[i].op = "driver" /\ ops[i].ret = 0

\* the colour effect after the driver calls in o: a redshift process that
\* exits with code 0 has applied (-O) or cleared (-x) the effect, any other
\* leaves it as it was
RECURSIVE EffectAfter(_, _)
EffectAfter(eff, o) ==
    IF o = << >> THEN eff
    ELSE EffectAfter(IF Head(o).op = "driver" /\ Head(o).out = "exit0"
                     THEN (IF Head(o).arg = ResetArgv THEN "off" ELSE "on") ELSE eff,
                     Tail(o))

\* the handler named ev ran and left the object as r
Becomes(r, ev) ==
    /\ is_enabled' = r.is_enabled
    /\ _line_index' = r._line_index
    /\ _lines' = r._lines
    /\ text' = r.text
    /\ ops' = r.ops
    /\ raised' = r.exc
    /\ event' = ev
    /\ UNCHANGED cfgvars

\* Redshift.__init__ with a configuration
Init ==
    /\ brightness \in Brightnesses
    /\ temperature \in Temperatures
    /\ gamma_red \in Reds
    /\ gamma_green \in Greens
    /\ gamma_blue \in Blues
    /\ \E p \in TemplatePairs : disabled_txt = p[1] /\ enabled_txt = p[2]
    /\ is_enabled = FALSE
    /\ _line_index = 0
    /\ _lines = << >>
    /\ text = InitialText
    /\ configured = FALSE
    /\ event = "__init__"
    /\ ops = << >>
    /\ raised = ""
    /\ effect = "unknown"
    /\ prev_text = ""
    /\ prev_index = 0
    /\ prev_failed = FALSE
    /\ nscrolls = 0
    /\ run_text = ""
    /\ run_index = 0
    /\ run_dir = ""
    /\ last_call = "none"

Configure ==
    /\ ~configured
    /\ configured' = TRUE
    /\ \E o \in Outcomes : Becomes(_configure(Self, o), "_configure")
    /\ UNCHANGED histvars

Click ==
    /\ configured
    /\ UNCHANGED configured
    /\ \E o \in Outcomes : Becomes(click(Self, o), "click")
    /\ UNCHANGED histvars

ScrollUp ==
    /\ configured
    /\ UNCHANGED configured
    /\ Becomes(scroll_up(Self), "scroll_up")
    /\ UNCHANGED histvars

ScrollDown ==
    /\ configured
    /\ UNCHANGED configured
    /\ Becomes(scroll_down(Self), "scroll_down")
    /\ UNCHANGED histvars

Draw ==
    /\ configured
    /\ UNCHANGED configured
    /\ Becomes(draw(Self), "draw")
    /\ UNCHANGED histvars

EnableRedshift ==
    /\ configured
    /\ UNCHANGED configured
    /\ \E o \in Outcomes : Becomes(enable_redshift(Self, o), "enable_redshift")
    /\ UNCHANGED histvars

ResetRedshift ==
    /\ configured
    /\ UNCHANGED configured
    /\ \E o \in Outcomes : Becomes(reset_redshift(Self, o), "reset_redshift")
    /\ UNCHANGED histvars

Next ==
    \/ Configure
    \/ Click
    \/ ScrollUp
    \/ ScrollDown
    \/ Draw
    \/ EnableRedshift
    \/ ResetRedshift

Spec == Init /\ [][Next]_vars

(***************************************************************************)
(* The same handlers, observed: the history variables follow the events    *)
(***************************************************************************)
ScrollDir(ev) == IF ev = "scroll_up" THEN "up" ELSE "down"

\* the texts and the runs of scrolls, after the handler named ev has left
\* the object as r
TrackRuns(r, ev) ==
    /\ prev_text' = text
    /\ prev_index' = _line_index
    /\ IF ev \in {"scroll_up", "scroll_down"}
       THEN /\ nscrolls' = IF nscrolls < MaxScrolls THEN nscrolls + 1 ELSE MaxScrolls
            /\ run_text' = IF nscrolls = 0 THEN text ELSE run_text
            /\ run_index' = IF nscrolls = 0 THEN _line_index ELSE run_index
            /\ run_dir' = IF nscrolls = 0 \/ run_dir = ScrollDir(ev) THEN ScrollDir(ev)
                          ELSE "mixed"
       ELSE IF ev = "draw"
       THEN UNCHANGED <<nscrolls, run_text, run_index, run_dir>>
       ELSE nscrolls' = 0 /\ run_text' = "" /\ run_index' = 0 /\ run_dir' = ""
    /\ UNCHANGED <<effect, prev_failed, last_call>>

\* the driver calls, after the handler named ev has left the object as r
TrackCalls(r, ev) ==
    /\ effect' = EffectAfter(effect, r.ops)
    /\ prev_failed' = DriverFailed
    /\ last_call' = IF DriverOps(r.ops) = << >> THEN last_call
                    ELSE IF DriverOps(r.ops)[Len(DriverOps(r.ops))].arg = ResetArgv
                         THEN "reset" ELSE "apply"
    /\ UNCHANGED <<prev_text, prev_index, nscrolls, run_text, run_index, run_dir>>

Observed(r, ev) == Becomes(r, ev) /\ TrackRuns(r, ev)

Event(r, ev) == Becomes(r, ev) /\ TrackCalls(r, ev)

ObservedConfigure ==
    /\ ~configured
    /\ configured' = TRUE
    /\ \E o \in Outcomes : Observed(_configure(Self, o), "_configure")

ObservedClick ==
    /\ configured
    /\ UNCHANGED configured
    /\ \E o \in Outcomes : Observed(click(Self, o), "click")

ObservedScrollUp ==
    /\ configured
    /\ UNCHANGED configured
    /\ Observed(scroll_up(Self), "scroll_up")

ObservedScrollDown ==
    /\ configured
    /\ UNCHANGED configured
    /\ Observed(scroll_down(Self), "scroll_down")

ObservedDraw ==
    /\ configured
    /\ UNCHANGED configured
    /\ Observed(draw(Self), "draw")

ObservedEnableRedshift ==
    /\ configured
    /\ UNCHANGED configured
    /\ \E o \in Outcomes : Observed(enable_redshift(Self, o), "enable_redshift")

ObservedResetRedshift ==
    /\ configured
    /\ UNCHANGED configured
    /\ \E o \in Outcomes : Observed(reset_redshift(Self, o), "reset_redshift")

\* every callback and exposed command, with the texts and runs observed
NextObserved ==
    \/ ObservedConfigure
    \/ ObservedClick
    \/ ObservedScrollUp
    \/ ObservedScrollDown
    \/ ObservedDraw
    \/ ObservedEnableRedshift
    \/ ObservedResetRedshift

SpecObserved == Init /\ [][NextObserved]_vars

EventConfigure ==
    /\ ~configured
    /\ configured' = TRUE
    /\ \E o \in Outcomes : Event(_configure(Self, o), "_configure")

EventClick ==
    /\ configured
    /\ UNCHANGED configured
    /\ \E o \in Outcomes : Event(click(Self, o), "click")

EventScrollUp ==
    /\ configured
    /\ UNCHANGED configured
    /\ Event(scroll_up(Self), "scroll_up")

EventScrollDown ==
    /\ configured
    /\ UNCHANGED configured
    /\ Event(scroll_down(Self), "scroll_down")

EventDraw ==
    /\ configured
    /\ UNCHANGED configured
    /\ Event(draw(Self), "draw")

EventEnableRedshift ==
    /\ configured
    /\ UNCHANGED configured
    /\ \E o \in Outcomes : Event(enable_redshift(Self, o), "enable_redshift")

EventResetRedshift ==
    /\ configured
    /\ UNCHANGED configured
    /\ \E o \in Outcomes : Event(reset_redshift(Self, o), "reset_redshift")

\* every callback and exposed command, with the driver calls observed
NextEvents ==
    \/ EventConfigure
    \/ EventClick
    \/ EventScrollUp
    \/ EventScrollDown
    \/ EventDraw
    \/ EventEnableRedshift
    \/ EventResetRedshift

SpecEvents == Init /\ [][NextEvents]_vars

\* the same, with every redshift process exiting with code 0
ConfigureOk ==
    /\ ~configured
    /\ configured' = TRUE
    /\ Event(_configure(Self, "exit0"), "_configure")

ClickOk ==
    /\ configured
    /\ UNCHANGED configured
    /\ Event(click(Self, "exit0"), "click")

NextOk ==
    \/ ConfigureOk
    \/ ClickOk
    \/ EventScrollUp
    \/ EventScrollDown
    \/ EventDraw

SpecOk == Init /\ [][NextOk]_vars

\* the callbacks and draw run on the object before _configure has run
EarlyClick ==
    /\ ~configured
    /\ UNCHANGED configured
    /\ \E o \in Outcomes : Becomes(click(Self, o), "click")
    /\ UNCHANGED histvars

EarlyScrollUp ==
    /\ ~configured
    /\ UNCHANGED configured
    /\ Becomes(scroll_up(Self), "scroll_up")
    /\ UNCHANGED histvars

EarlyScrollDown ==
    /\ ~configured
    /\ UNCHANGED configured
    /\ Becomes(scroll_down(Self), "scroll_down")
    /\ UNCHANGED histvars

EarlyDraw ==
    /\ ~configured
    /\ UNCHANGED configured
    /\ Becomes(draw(Self), "draw")
    /\ UNCHANGED histvars

NextEarly ==
    \/ Configure
    \/ Click
    \/ ScrollUp
    \/ ScrollDown
    \/ Draw
    \/ EnableRedshift
    \/ ResetRedshift
    \/ EarlyClick
    \/ EarlyScrollUp
    \/ EarlyScrollDown
    \/ EarlyDraw

SpecEarly == Init /\ [][NextEarly]_vars

(***************************************************************************)
(* Vocabulary of the properties                                            *)
(***************************************************************************)
\* the last handler made a driver call that succeeded
DriverSucceeded == \E i \in 1..Len(ops) : ops[i].op = "driver" /\ ops[i].ret = 1

\* the step is a primary click received with the cursor at index i
ClickAt(i) == event' = "click" /\ _line_index = i

(***************************************************************************)
(* Properties                                                              *)
(***************************************************************************)
\* C1: every primary click received while the cursor is at index 0 flips
\* the enabled flag, whether the driver call it makes succeeds or fails.
C1_ClickFlipsFlag ==
    [][ClickAt(0) =>
          /\ is_enabled' = ~is_enabled
          /\ Len(DriverOps(ops')) = 1]_vars

\* a click whose apply call failed has left the flag enabled, and a click
\* whose reset call failed has left it disabled
C1_Witness ==
    /\ event = "click" /\ _line_index = 0 /\ DriverFailed
    /\ is_enabled = (DriverOps(ops)[1].arg # ResetArgv)

\* C2: a primary click received while the cursor is at index 1, 2 or 3 is a
\* no-op: flag, cursor and displayed text are unchanged, no driver call.
C2_ClickElsewhereIsNoop ==
    [][(\E i \in 1..3 : ClickAt(i)) =>
          /\ is_enabled' = is_enabled
          /\ _line_index' = _line_index
          /\ text' = text
          /\ _lines' = _lines
          /\ DriverOps(ops') = << >>
          /\ ops' = << >>]_vars

C2_Witness == event = "click" /\ _line_index \in 1..3 /\ ops = << >>

\* C3 (as claimed): when the driver call made by a primary click fails, the
\* displayed text is set to the error string, a redraw is requested, and the
\* error string is still the displayed text when the click handler finishes.
C3_ErrorTextRemains ==
    (event = "click" /\ DriverFailed) =>
        /\ \E i \in 1..Len(ops) : ops[i].op = "text" /\ ops[i].arg = <<ErrorText>>
        /\ \E i \in 1..Len(ops) : ops[i].op = "bar.draw"
        /\ text = ErrorText

\* the status line for a value of the flag: the template chosen by the flag,
\* with the placeholders filled from the configuration and that flag
RenderedStatus(flag) ==
    Format([Self EXCEPT !.is_enabled = flag], IF flag THEN enabled_txt ELSE disabled_txt)

\* C4: with the cursor at index 0, a primary click while disabled changes the
\* displayed text from the rendered disabled-text to the rendered
\* enabled-text, and a click while enabled changes it back, is_enabled
\* being rendered as the new flag each time.
C4_ClickTogglesText ==
    [][ClickAt(0) =>
          /\ (~is_enabled /\ text = RenderedStatus(FALSE)) => text' = RenderedStatus(TRUE)
          /\ (is_enabled /\ text = RenderedStatus(TRUE)) => text' = RenderedStatus(FALSE)]_vars

\* a click has brought the text back to the disabled-text, which differs
\* from the enabled-text
C4_Witness ==
    /\ event = "click" /\ _line_index = 0 /\ ~is_enabled
    /\ text = RenderedStatus(FALSE)
    /\ RenderedStatus(FALSE) # RenderedStatus(TRUE)

\* C5: the cursor is in [0, 4) in every reachable state, and once the widget
\* is activated it is a valid index into the 4-entry display line list.
C5_CursorInRange ==
    /\ _line_index \in 0..3
    /\ configured => (Len(_lines) = 4 /\ _line_index < Len(_lines))

\* scroll-down has wrapped from index 0 to the last entry
C5_Witness == event = "scroll_down" /\ _line_index = 3 /\ raised = ""

\* the rendering of the entry at the cursor, from the configuration and the
\* current flag
ExpectedLine ==
    CASE _line_index = 0 -> RenderedStatus(is_enabled)
      [] _line_index = 1 -> "Brightness: " \o FloatStr(brightness)
      [] _line_index = 2 -> "Temperature: " \o ToString(temperature)
      [] _line_index = 3 -> "Gamma: " \o FloatStr(gamma_red) \o ":" \o FloatStr(gamma_green)
                                \o ":" \o FloatStr(gamma_blue)
      [] OTHER -> ""

\* C6 (as claimed): after every click or scroll event the displayed text is
\* the rendering of the entry at the cursor for the current flag.
C6_TextFollowsFlagAfterAnyClick ==
    event \in {"click", "scroll_up", "scroll_down"} => text = ExpectedLine

\* C6 (amended): after every scroll event and every primary click received
\* at cursor index 0 the displayed text is the rendering of the entry at the
\* cursor for the current flag, whatever the driver calls returned.
C6_TextFollowsFlag ==
    (event \in {"scroll_up", "scroll_down"} \/ (event = "click" /\ _line_index = 0))
        => text = ExpectedLine

\* index 0 has been reached by scrolling while enabled, and shows the
\* enabled-text rendered with the flag true
C6_Witness ==
    /\ event \in {"scroll_up", "scroll_down"} /\ _line_index = 0 /\ is_enabled
    /\ text = RenderedStatus(TRUE)
    /\ RenderedStatus(FALSE) # RenderedStatus(TRUE)

\* C7: apply and reset never let an exception reach the caller; each returns
\* 1 exactly when the process exited with code 0, and 0 for a non-zero exit,
\* a missing binary or any other exception.
C7_DriverNeverRaises ==
    /\ raised \notin Outcomes
    /\ \A i \in 1..Len(ops) :
          ops[i].op = "driver" =>
              /\ ~ops[i].raised
              /\ ops[i].ret \in {0, 1}
              /\ (ops[i].ret = 1) <=> (ops[i].out = "exit0")
              /\ ops[i].out \in {"CalledProcessError", "FileNotFoundError",
                                  "OtherException"} => ops[i].ret = 0

\* apply was called with the binary missing and returned 0
C7_Witness ==
    \E i \in 1..Len(ops) :
        /\ ops[i].op = "driver" /\ ops[i].arg # ResetArgv
        /\ ops[i].out = "FileNotFoundError" /\ ops[i].ret = 0

\* C8: activation makes exactly one driver call, a reset, whatever it
\* returns and before the display line list is built, and leaves the
\* rendered disabled-text shown, the flag false and the cursor at index 0.
C8_ActivationResetsFirst ==
    event = "_configure" =>
        /\ Len(ops) >= 2
        /\ ops[1].op = "driver" /\ ops[1].arg = << "redshift", "-x" >>
        /\ Len(DriverOps(ops)) = 1
        /\ \E i \in 2..Len(ops) : ops[i].op = "_set_lines"
        /\ Len(_lines) = 4
        /\ text = RenderedStatus(FALSE)
        /\ ~is_enabled
        /\ _line_index = 0

\* activation whose reset call failed
C8_Witness == event = "_configure" /\ DriverFailed /\ text = RenderedStatus(FALSE)

\* C9: a primary click at cursor index 0 makes exactly one driver call, apply
\* with the configured temperature, gamma triple and brightness when the
\* flag is false and reset when it is true; the scrolls make none.
C9_OneDriverCallPerClick ==
    [][/\ ClickAt(0) =>
             /\ Len(DriverOps(ops')) = 1
             /\ DriverOps(ops')[1].arg =
                    IF is_enabled THEN << "redshift", "-x" >>
                    ELSE << "redshift", "-P", "-O", ToString(temperature),
                            "-b", FloatStr(brightness), "-g",
                            FloatStr(gamma_red) \o ":" \o FloatStr(gamma_green)
                                \o ":" \o FloatStr(gamma_blue) >>
       /\ event' \in {"scroll_up", "scroll_down"} => DriverOps(ops') = << >>]_vars

\* a click has called apply with gains that differ from channel to channel
C9_Witness ==
    /\ event = "click" /\ is_enabled /\ Len(DriverOps(ops)) = 1
    /\ DriverOps(ops)[1].arg # ResetArgv
    /\ gamma_red # gamma_green /\ gamma_green # gamma_blue /\ brightness # gamma_red

\* from index from, the step moves the cursor to index to and shows line
ScrollShows(from, to, line) == _line_index = from => (_line_index' = to /\ text' = line)

\* "Gamma: <r>:<g>:<b>"
GammaLine ==
    "Gamma: " \o FloatStr(gamma_red) \o ":" \o FloatStr(gamma_green) \o ":" \o FloatStr(gamma_blue)

\* C10: scroll-up shows brightness, temperature, gamma and the status line
\* from indices 0, 1, 2, 3; scroll-down shows gamma, temperature, brightness
\* and the status line from indices 0, 3, 2, 1.
C10_ScrollOrder ==
    [][/\ event' = "scroll_up" =>
             /\ ScrollShows(0, 1, "Brightness: " \o FloatStr(brightness))
             /\ ScrollShows(1, 2, "Temperature: " \o ToString(temperature))
             /\ ScrollShows(2, 3, GammaLine)
             /\ ScrollShows(3, 0, RenderedStatus(is_enabled))
       /\ event' = "scroll_down" =>
             /\ ScrollShows(0, 3, GammaLine)
             /\ ScrollShows(3, 2, "Temperature: " \o ToString(temperature))
             /\ ScrollShows(2, 1, "Brightness: " \o FloatStr(brightness))
             /\ ScrollShows(1, 0, RenderedStatus(is_enabled))]_vars

\* the fourth scroll-up has come back to the status line
C10_Witness ==
    /\ event = "scroll_up" /\ _line_index = 0 /\ text = RenderedStatus(is_enabled)
    /\ brightness # 10 /\ temperature # 1700

\* C11 (as claimed): scroll-up followed immediately by scroll-down returns
\* the displayed text to the value it had before the two scrolls, and the
\* cursor to its previous index.
C11_UpDownRestoresText ==
    [][(event = "scroll_up" /\ event' = "scroll_down") =>
          (_line_index' = prev_index /\ text' = prev_text)]_vars

\* C11 (amended): scroll-up followed immediately by scroll-down returns the
\* cursor to its previous index and displays the rendering of the line at
\* that index, which is the text displayed before the two scrolls unless
\* that text was the error string.
C11_UpDownRestoresLine ==
    [][(event = "scroll_up" /\ event' = "scroll_down") =>
          /\ _line_index' = prev_index
          /\ text' = ExpectedLine'
          /\ prev_text # ErrorText => text' = prev_text]_vars

\* a run of exactly two scrolls, the second a scroll-down, that is back on
\* the index and the text it started from, with the flag true
C11_Witness ==
    /\ event = "scroll_down" /\ nscrolls = 2 /\ run_dir = "mixed"
    /\ _line_index = run_index /\ prev_index = (run_index + 1) % 4
    /\ text = run_text /\ is_enabled

\* the run of scrolls is of length 4k and started with the cursor at index 0
RunOfFourK == nscrolls > 0 /\ nscrolls < MaxScrolls /\ nscrolls % 4 = 0 /\ run_index = 0

\* C12 (as claimed): after every sequence of 4k scroll events, scroll-up or
\* scroll-down, started at index 0, the line displayed is the line that was
\* displayed before it.
C12_FourKScrollsRestoreLine == RunOfFourK => text = run_text

\* C12 (amended): after every sequence of 4k scroll events in one direction,
\* started at index 0, the cursor is at index 0 and the line displayed is
\* the status line for the current flag, which is the line displayed before
\* the sequence unless that was the error string.
C12_FourKScrollsOneWayRestoreLine ==
    (RunOfFourK /\ run_dir \in {"up", "down"}) =>
        /\ _line_index = 0
        /\ text = RenderedStatus(is_enabled)
        /\ run_text # ErrorText => text = run_text

\* eight scroll-downs from index 0 with the flag true
C12_Witness ==
    /\ nscrolls = 8 /\ run_dir = "down" /\ run_index = 0 /\ is_enabled
    /\ text = run_text /\ event = "scroll_down"

\* C13: the enabled flag is changed only by a primary click at cursor index
\* 0: activation, the scrolls, a click at another index, a redraw and the
\* exposed enable_redshift and reset_redshift commands leave it unchanged.
C13_OnlyClickChangesFlag ==
    [][/\ is_enabled' # is_enabled => ClickAt(0)
       /\ (event' \in {"_configure", "scroll_up", "scroll_down", "draw",
                        "enable_redshift", "reset_redshift"}
              \/ (event' = "click" /\ _line_index # 0))
            => is_enabled' = is_enabled]_vars

\* the exposed enable_redshift command has applied the effect and the flag
\* is still false
C13_Witness ==
    /\ event = "enable_redshift" /\ DriverSucceeded /\ ~is_enabled /\ _line_index = 0

\* the object after the button event ev, had its driver call ended as o
AfterEvent(ev, o) ==
    CASE ev = "click" -> click(Self, o)
      [] ev = "scroll_up" -> scroll_up(Self)
      [] ev = "scroll_down" -> scroll_down(Self)

\* C14 (as claimed): a driver failure affects nothing but the displayed text
\* and does not persist: the flag and the cursor after a click or scroll are
\* the same whatever the outcome of its driver call, and the first click or
\* scroll after a failure shows the normal line for the resulting cursor and
\* flag, not the error string.
C14_FailureIsTransient ==
    [][event' \in {"click", "scroll_up", "scroll_down"} =>
          /\ \A o \in Outcomes :
                /\ AfterEvent(event', o).is_enabled = is_enabled'
                /\ AfterEvent(event', o)._line_index = _line_index'
          /\ DriverFailed => (text' = ExpectedLine' /\ text' # ErrorText)]_vars

\* C14 (amended): the flag and the cursor after a click or scroll are the
\* same whatever the outcome of its driver call; a scroll, or a click at
\* index 0, that comes first after a failure shows the normal line for the
\* resulting cursor and flag; a click at index 1, 2 or 3 that comes first
\* after a failure (of an exposed command) leaves the error string shown.
C14_FailureClearedByNextRender ==
    [][event' \in {"click", "scroll_up", "scroll_down"} =>
          /\ \A o \in Outcomes :
                /\ AfterEvent(event', o).is_enabled = is_enabled'
                /\ AfterEvent(event', o)._line_index = _line_index'
          /\ DriverFailed =>
                IF event' = "click" /\ _line_index # 0
                THEN /\ event \in {"enable_redshift", "reset_redshift"}
                     /\ text = ErrorText /\ text' = ErrorText
                ELSE text' = ExpectedLine' /\ text' # ErrorText]_vars

\* a scroll that came right after a failed click shows its normal line, with
\* the flag true although the effect was not applied
C14_Witness ==
    /\ prev_failed /\ event \in {"scroll_up", "scroll_down"} /\ is_enabled
    /\ text = ExpectedLine /\ last_call = "apply" /\ effect # "on"

\* the read at position i of ops comes after a _set_lines of the same handler
ReadIsFresh(i) == \E j \in 1..(i - 1) : ops[j].op = "_set_lines"

\* C15 (as claimed): the display line list is rebuilt every time it is read:
\* no handler reads an entry of a list that was built in an earlier event.
C15_EveryReadRebuilds ==
    \A i \in 1..Len(ops) : ops[i].op = "read" => ReadIsFresh(i)

\* C15 (amended): every scroll rebuilds the list before it reads it; click
\* neither rebuilds nor reads the list; draw does not rebuild it, and with
\* the cursor at index 1, 2 or 3 reads the entry of the list an earlier
\* event built, a list equal to the one a rebuild would give.
C15_ReadsAreFreshOrUnchanged ==
    /\ \A i \in 1..Len(ops) :
          ops[i].op = "read" =>
              \/ ReadIsFresh(i)
              \/ /\ event = "draw" /\ _line_index \in 1..3
                 /\ _lines = _set_lines(Self)._lines
    /\ event \in {"scroll_up", "scroll_down"} =>
          (ops[1].op = "_set_lines" /\ \E i \in 2..Len(ops) : ops[i].op = "read")
    /\ event \in {"click", "draw"} =>
          \A i \in 1..Len(ops) : ops[i].op # "_set_lines"
    /\ event = "click" => \A i \in 1..Len(ops) : ops[i].op # "read"
    /\ (event = "draw" /\ _line_index = 0) => \A i \in 1..Len(ops) : ops[i].op # "read"

\* a redraw with the cursor on a lower line has read the list without
\* rebuilding it
C15_Witness ==
    /\ event = "draw" /\ _line_index \in 1..3 /\ is_enabled
    /\ \E i \in 1..Len(ops) : ops[i].op = "read" /\ ~ReadIsFresh(i)
    /\ \A i \in 1..Len(ops) : ops[i].op # "_set_lines"

\* C16: when every driver call succeeds and only button events arrive, the
\* driver calls alternate reset (at activation), apply, reset, ..., and
\* between events the flag is true exactly when the most recent driver call
\* was apply, that is exactly when the colour effect is on.
C16_CallsAlternate ==
    [][/\ DriverOps(ops') # << >> =>
             /\ Len(DriverOps(ops')) = 1
             /\ last_call' # last_call
             /\ last_call = "none" => last_call' = "reset"
       /\ configured' =>
             /\ last_call' \in {"apply", "reset"}
             /\ is_enabled' <=> (last_call' = "apply")
             /\ is_enabled' <=> (effect' = "on")
             /\ ~is_enabled' <=> (effect' = "off")]_vars

\* a click has reset the effect that an earlier click applied
C16_Witness ==
    /\ event = "click" /\ last_call = "reset" /\ ~is_enabled /\ effect = "off"
    /\ DriverOps(ops) # << >>

\* C17: no handler reads the display line list out of range, also when it
\* runs before activation: a read happens with a non-empty list and a
\* cursor that is a valid index, and the cursor is non-zero only once the
\* list has been built.
C17_ReadsInRange ==
    /\ raised # "IndexError"
    /\ (\E i \in 1..Len(ops) : ops[i].op = "read") =>
          (Len(_lines) > 0 /\ _line_index \in 0..(Len(_lines) - 1))
    /\ _line_index # 0 => (Len(_lines) = 4 /\ _line_index \in 1..3)

\* a redraw before activation, after a scroll, has read the list
C17_Witness ==
    /\ ~configured /\ event = "draw" /\ _line_index # 0
    /\ \E i \in 1..Len(ops) : ops[i].op = "read"

TypeOK ==
    /\ is_enabled \in BOOLEAN
    /\ _line_index \in Int
    /\ configured \in BOOLEAN
    /\ Len(_lines) \in {0, 4}

====
